---- MODULE Spec2Model ----
(***************************************************************************)
(* JsoncInstance (language-server/src/jsonc-instance.js): an addressable,  *)
(* annotatable view over a jsonc-parser syntax tree.                       *)
(*                                                                         *)
(* Strings (property names, pointers, uris) are sequences of one-character *)
(* strings.  The source text is a sequence of tokens and an offset is an   *)
(* index into it (the first token is at offset 0).  Syntax-tree nodes and  *)
(* annotation maps live in heaps indexed by identity, because the code     *)
(* shares them by reference.                                               *)
(***************************************************************************)
EXTENDS Integers, Sequences, FiniteSets, TLC

\* ------------------------------------------------------------- bounds
\* Instances the caller holds besides the one fromTextDocument returned
MaxHeld == 1
\* Calls made on the document's Instances in one run
MaxCalls == 3

\* ------------------------------------------------------------ strings
Min(a, b) == IF a <= b THEN a ELSE b

\* String.prototype.slice(start, end) for 0 <= start; result is s[start..end-1].
Slice(s, start, end) ==
  LET e == Min(end, Len(s))
  IN  IF start >= e THEN <<>> ELSE SubSeq(s, start + 1, e)

\* String.prototype.indexOf(c, from): 0-based index of c at or after from, or -1.
RECURSIVE IndexOf(_, _, _)
IndexOf(s, c, from) ==
  IF from >= Len(s) THEN -1
  ELSE IF s[from + 1] = c THEN from
  ELSE IndexOf(s, c, from + 1)

\* s.replace(/ab/g, r) for a two-character pattern <<a, b>>, scanning left to right.
RECURSIVE ReplaceAll2(_, _, _, _)
ReplaceAll2(s, a, b, r) ==
  IF Len(s) = 0 THEN <<>>
  ELSE IF Len(s) >= 2 /\ s[1] = a /\ s[2] = b
       THEN r \o ReplaceAll2(SubSeq(s, 3, Len(s)), a, b, r)
       ELSE <<s[1]>> \o ReplaceAll2(Tail(s), a, b, r)

\* s.replace(/a/g, r) for a one-character pattern.
RECURSIVE ReplaceAll1(_, _, _)
ReplaceAll1(s, a, r) ==
  IF Len(s) = 0 THEN <<>>
  ELSE (IF s[1] = a THEN r ELSE <<s[1]>>) \o ReplaceAll1(Tail(s), a, r)

\* `${itemIndex}` / Number.prototype.toString for the indices the model reaches.
Digits == <<"0", "1", "2", "3", "4", "5", "6", "7", "8", "9">>
RECURSIVE NumToString(_)
NumToString(n) ==
  IF n < 10 THEN <<Digits[n + 1]>> ELSE NumToString(n \div 10) \o <<Digits[(n % 10) + 1]>>

\* ------------------------------------------------------ JSON Pointer
\* @hyperjump/json-pointer: escape = replace(/~/g, "~0").replace(/\//g, "~1")
PointerEscape(segment) == ReplaceAll1(ReplaceAll1(segment, "~", <<"~", "0">>), "/", <<"~", "1">>)

\* @hyperjump/json-pointer: append(segment, pointer) = pointer + "/" + escape(segment)
JsonPointerAppend(segment, pointer) == pointer \o <<"/">> \o PointerEscape(segment)

\* segment.toString().replace(/~1/g, "/").replace(/~0/g, "~")
PointerUnescape(segment) == ReplaceAll2(ReplaceAll2(segment, "~", "1", <<"/">>), "~", "0", <<"~">>)

PointerThrows(pointer) == Len(pointer) > 0 /\ pointer[1] # "/"

\* The while loop of pointerSegments, from (segmentStart, segmentEnd).
RECURSIVE PointerSegmentsFrom(_, _, _)
PointerSegmentsFrom(pointer, segmentStart, segmentEnd) ==
  IF ~(segmentEnd < Len(pointer)) THEN <<>>
  ELSE LET position == IndexOf(pointer, "/", segmentStart)
           newEnd   == IF position = -1 THEN Len(pointer) ELSE position
           segment  == Slice(pointer, segmentStart, newEnd)
       IN  <<PointerUnescape(segment)>> \o PointerSegmentsFrom(pointer, newEnd + 1, newEnd)

\* The segments pointerSegments yields when it does not throw.
pointerSegments(pointer) == PointerSegmentsFrom(pointer, 1, 0)

\* ------------------------------------------------------- JSON values
\* What value() returns: a JavaScript value, tagged with its kind.
JUndefined == [t |-> "undefined"]
JString(s) == [t |-> "string", v |-> s]
JNumber(n) == [t |-> "number", v |-> n]
JBoolean(b) == [t |-> "boolean", v |-> b]
JArray(items) == [t |-> "array", s |-> items]
\* m: property name -> value (a later duplicate replaces an earlier one)
JObject(m) == [t |-> "object", m |-> m]
\* An exception raised by the operation instead of a result.
Threw(kind) == [t |-> "throw", error |-> kind]
IsThrow(r) == r.t = "throw"

EmptyMap == [x \in {} |-> x]

\* ------------------------------------------------------------ tokens
\* The text of a document, one token per offset.
P(c) == [k |-> "p", c |-> c]
S(chars) == [k |-> "str", s |-> chars]
N(n) == [k |-> "num", n |-> n]
B(b) == [k |-> "bool", b |-> b]
Comment == [k |-> "comment"]
IsP(tok, c) == tok.k = "p" /\ tok.c = c

\* JSON.parse: strict JSON (no comments, no trailing commas, nothing after the
\* value); a failure is a SyntaxError.
RECURSIVE ParseValue(_, _)
RECURSIVE ParseMember(_, _, _)
RECURSIVE ParseElement(_, _, _)
ParseFail == [ok |-> FALSE, v |-> JUndefined, next |-> 0]
ParseOk(v, next) == [ok |-> TRUE, v |-> v, next |-> next]

ParseValue(toks, i) ==
  IF i > Len(toks) THEN ParseFail
  ELSE LET tok == toks[i] IN
    CASE tok.k = "str"  -> ParseOk(JString(tok.s), i + 1)
      [] tok.k = "num"  -> ParseOk(JNumber(tok.n), i + 1)
      [] tok.k = "bool" -> ParseOk(JBoolean(tok.b), i + 1)
      [] IsP(tok, "{")  ->
           IF i + 1 <= Len(toks) /\ IsP(toks[i + 1], "}")
           THEN ParseOk(JObject(EmptyMap), i + 2)
           ELSE ParseMember(toks, i + 1, EmptyMap)
      [] IsP(tok, "[")  ->
           IF i + 1 <= Len(toks) /\ IsP(toks[i + 1], "]")
           THEN ParseOk(JArray(<<>>), i + 2)
           ELSE ParseElement(toks, i + 1, <<>>)
      [] OTHER -> ParseFail

ParseMember(toks, i, m) ==
  IF ~(i + 1 <= Len(toks) /\ toks[i].k = "str" /\ IsP(toks[i + 1], ":")) THEN ParseFail
  ELSE LET r == ParseValue(toks, i + 2) IN
    IF ~r.ok \/ r.next > Len(toks) THEN ParseFail
    ELSE LET m2 == (toks[i].s :> r.v) @@ m IN
      CASE IsP(toks[r.next], ",") -> ParseMember(toks, r.next + 1, m2)
        [] IsP(toks[r.next], "}") -> ParseOk(JObject(m2), r.next + 1)
        [] OTHER -> ParseFail

ParseElement(toks, i, items) ==
  LET r == ParseValue(toks, i) IN
    IF ~r.ok \/ r.next > Len(toks) THEN ParseFail
    ELSE LET items2 == Append(items, r.v) IN
      CASE IsP(toks[r.next], ",") -> ParseElement(toks, r.next + 1, items2)
        [] IsP(toks[r.next], "]") -> ParseOk(JArray(items2), r.next + 1)
        [] OTHER -> ParseFail

JSONparse(toks) ==
  LET r == ParseValue(toks, 1)
  IN  IF r.ok /\ r.next = Len(toks) + 1 THEN r.v ELSE Threw("SyntaxError")

\* ------------------------------------------------------- syntax tree
\* A jsonc-parser node {type, offset, length, value?, children?, parent?}.
\* Nodes are heap cells: a node is named by its index in the heap, 0 is undefined.
\* children holds the array's elements; minusOne holds what the array has under
\* the key -1 (not an element: it changes neither length nor iteration).
NoNode == 0
Node(type, offset, length, val, hasChildren, children, parentNode) ==
  [type |-> type, offset |-> offset, length |-> length, value |-> val,
   hasChildren |-> hasChildren, children |-> children, minusOne |-> NoNode,
   parent |-> parentNode]
ObjectNode(offset, length, children, parentNode) ==
  Node("object", offset, length, JUndefined, TRUE, children, parentNode)
ArrayNode(offset, length, children, parentNode) ==
  Node("array", offset, length, JUndefined, TRUE, children, parentNode)
PropertyNode(offset, length, children, parentNode) ==
  Node("property", offset, length, JUndefined, TRUE, children, parentNode)
StringNode(chars, offset, parentNode) ==
  Node("string", offset, 1, JString(chars), FALSE, <<>>, parentNode)
NumberNode(n, offset, parentNode) ==
  Node("number", offset, 1, JNumber(n), FALSE, <<>>, parentNode)
BooleanNode(b, offset, parentNode) ==
  Node("boolean", offset, 1, JBoolean(b), FALSE, <<>>, parentNode)
\* The node asEmbedded() stores: {type: "boolean", offset, length: 0}.
Placeholder(offset) ==
  Node("boolean", offset, 0, JUndefined, FALSE, <<>>, NoNode)

\* ---------------------------------------------------------- documents
\* Each document is a text and the tree parseTree(text, [], {disallowComments:
\* false, allowTrailingComma: true, allowEmptyContent: true}) builds for it.
\* The root is node 1 and has no parent.
KeyA == <<"a">>
KeyB == <<"b">>
KeyX == <<"x">>
KeyY == <<"y">>
KeyTS == <<"~", "/">>

\* {"a":{"b":1}}
Doc1 ==
  [text  |-> <<P("{"), S(KeyA), P(":"), P("{"), S(KeyB), P(":"), N(1), P("}"), P("}")>>,
   nodes |-> <<ObjectNode(0, 9, <<2>>, NoNode),
               PropertyNode(1, 7, <<3, 4>>, 1),
               StringNode(KeyA, 1, 2),
               ObjectNode(3, 5, <<5>>, 2),
               PropertyNode(4, 3, <<6, 7>>, 4),
               StringNode(KeyB, 4, 5),
               NumberNode(1, 6, 5)>>]

\* {"x":[1,{"y":true}]}
Doc2 ==
  [text  |-> <<P("{"), S(KeyX), P(":"), P("["), N(1), P(","), P("{"), S(KeyY), P(":"),
               B(TRUE), P("}"), P("]"), P("}")>>,
   nodes |-> <<ObjectNode(0, 13, <<2>>, NoNode),
               PropertyNode(1, 11, <<3, 4>>, 1),
               StringNode(KeyX, 1, 2),
               ArrayNode(3, 9, <<5, 6>>, 2),
               NumberNode(1, 4, 4),
               ObjectNode(6, 5, <<7>>, 4),
               PropertyNode(7, 3, <<8, 9>>, 6),
               StringNode(KeyY, 7, 7),
               BooleanNode(TRUE, 9, 7)>>]

\* {"~/":1,"~/":2}   (a repeated property name, with characters a pointer escapes)
Doc3 ==
  [text  |-> <<P("{"), S(KeyTS), P(":"), N(1), P(","), S(KeyTS), P(":"), N(2), P("}")>>,
   nodes |-> <<ObjectNode(0, 9, <<2, 5>>, NoNode),
               PropertyNode(1, 3, <<3, 4>>, 1),
               StringNode(KeyTS, 1, 2),
               NumberNode(1, 3, 2),
               PropertyNode(5, 3, <<6, 7>>, 1),
               StringNode(KeyTS, 5, 5),
               NumberNode(2, 7, 5)>>]

\* {"a":[1,/*c*/],}   (a comment and trailing commas)
Doc4 ==
  [text  |-> <<P("{"), S(KeyA), P(":"), P("["), N(1), P(","), Comment, P("]"), P(","),
               P("}")>>,
   nodes |-> <<ObjectNode(0, 10, <<2>>, NoNode),
               PropertyNode(1, 7, <<3, 4>>, 1),
               StringNode(KeyA, 1, 2),
               ArrayNode(3, 5, <<5>>, 2),
               NumberNode(1, 4, 4)>>]

\* {"a":1,"b"}   (a property with a name and no value: the parser keeps the
\* property node, with the name as its only child, and closes it at the brace)
Doc5 ==
  [text  |-> <<P("{"), S(KeyA), P(":"), N(1), P(","), S(KeyB), P("}")>>,
   nodes |-> <<ObjectNode(0, 7, <<2, 5>>, NoNode),
               PropertyNode(1, 3, <<3, 4>>, 1),
               StringNode(KeyA, 1, 2),
               NumberNode(1, 3, 2),
               PropertyNode(5, 2, <<6>>, 1),
               StringNode(KeyB, 5, 5)>>]

Docs == <<Doc1, Doc2, Doc3, Doc4, Doc5>>
DocRoot == 1

\* -------------------------------------------- jsonc-parser functions
\* findNodeAtLocation(root, path) for a path of strings (pointerSegments yields
\* strings only, so the numeric branch, which indexes arrays, is never taken):
\* each segment must name a property, with both children, of an object node.
RECURSIVE FirstProperty(_, _, _, _)
FirstProperty(ns, children, i, segment) ==
  IF i > Len(children) THEN NoNode
  ELSE LET propertyNode == ns[children[i]] IN
    IF propertyNode.hasChildren /\ Len(propertyNode.children) = 2
       /\ ns[propertyNode.children[1]].value = JString(segment)
    THEN propertyNode.children[2]
    ELSE FirstProperty(ns, children, i + 1, segment)

RECURSIVE findNodeAtLocation(_, _, _)
findNodeAtLocation(ns, root, path) ==
  IF root = NoNode THEN NoNode
  ELSE IF Len(path) = 0 THEN root
  ELSE IF ns[root].type # "object" \/ ~ns[root].hasChildren THEN NoNode
  ELSE LET found == FirstProperty(ns, ns[root].children, 1, Head(path))
       IN  IF found = NoNode THEN NoNode ELSE findNodeAtLocation(ns, found, Tail(path))

\* contains(node, offset) with includeRightBound = false
Contains(ns, node, offset) ==
  offset >= ns[node].offset /\ offset < ns[node].offset + ns[node].length

\* findNodeAtOffset(node, offset): the deepest node containing the offset.
RECURSIVE findNodeAtOffset(_, _, _)
RECURSIVE FindInChildren(_, _, _, _)
FindInChildren(ns, children, i, offset) ==
  IF i > Len(children) \/ ~(ns[children[i]].offset <= offset) THEN NoNode
  ELSE LET item == findNodeAtOffset(ns, children[i], offset)
       IN  IF item # NoNode THEN item ELSE FindInChildren(ns, children, i + 1, offset)

findNodeAtOffset(ns, node, offset) ==
  IF ~Contains(ns, node, offset) THEN NoNode
  ELSE LET item == IF ns[node].hasChildren
                   THEN FindInChildren(ns, ns[node].children, 1, offset)
                   ELSE NoNode
       IN  IF item # NoNode THEN item ELSE node

\* Array.prototype.indexOf / findIndex by identity: 0-based, -1 when absent.
RECURSIVE IndexOfNode(_, _, _)
IndexOfNode(children, node, i) ==
  IF i > Len(children) THEN -1
  ELSE IF children[i] = node THEN i - 1
  ELSE IndexOfNode(children, node, i + 1)

\* A path segment: a property name (string) or an array index (number).
NameSegment(chars) == [num |-> FALSE, s |-> chars]
IndexSegment(n) == [num |-> TRUE, n |-> n]
\* segment.toString()
SegmentToString(segment) == IF segment.num THEN NumToString(segment.n) ELSE segment.s

\* getNodePath(node): walks the parent links up to a node without a parent.
RECURSIVE getNodePath(_, _)
getNodePath(ns, node) ==
  IF ns[node].parent = NoNode \/ ~ns[ns[node].parent].hasChildren THEN <<>>
  ELSE LET parentNode == ns[ns[node].parent]
           path == getNodePath(ns, ns[node].parent)
       IN  IF parentNode.type = "property"
           THEN Append(path, NameSegment(ns[parentNode.children[1]].value.v))
           ELSE IF parentNode.type = "array"
                THEN LET index == IndexOfNode(parentNode.children, node, 1)
                     IN  IF index # -1 THEN Append(path, IndexSegment(index)) ELSE path
                ELSE path

\* --------------------------------------- collaborators of the Instance
\* TextDocument.offsetAt(position): the documents are one line long; a character
\* past the end of the line, or a later line, clamps to the end of the text.
offsetAt(text, position) ==
  IF position.line = 0 THEN Min(position.character, Len(text)) ELSE Len(text)

\* getKeywordId(keyword, dialectId) of @hyperjump/json-schema: the dialect's
\* identifier (a URI) for a keyword name; a name the dialect does not define is
\* given an identifier in the "unknown" namespace.
DefaultDialect == "https://json-schema.org/draft/2020-12/schema"
TitleKeyword == "title"
TitleKeywordId == "https://json-schema.org/keyword/title"
getKeywordId(keyword, dialectId) ==
  IF keyword = TitleKeyword /\ dialectId = DefaultDialect
  THEN TitleKeywordId
  ELSE IF keyword = TitleKeywordId
       THEN "https://json-schema.org/keyword/unknown#https://json-schema.org/keyword/title"
       ELSE "https://json-schema.org/keyword/unknown#other"

\* decodeURI(s): %XX is replaced by the character it encodes, except that an
\* escape of a reserved character (here "/" and "#") is kept as written; a "%"
\* not followed by two hexadecimal digits is a URIError.  AsciiChar covers the
\* model's alphabet; any other byte below 128 decodes to a character the model
\* writes "?".
HexDigits == <<"0", "1", "2", "3", "4", "5", "6", "7", "8", "9", "A", "B", "C", "D", "E", "F">>
IsHex(c) == \E i \in 1..16 : HexDigits[i] = c
HexValue(c) == (CHOOSE i \in 1..16 : HexDigits[i] = c) - 1
AsciiChar(byte) ==
  CASE byte = 97  -> "a"
    [] byte = 98  -> "b"
    [] byte = 126 -> "~"
    [] byte = 47  -> "/"
    [] byte = 35  -> "#"
    [] OTHER      -> "?"
UriReserved == {"/", "#"}

RECURSIVE decodeURI(_)
decodeURI(s) ==
  IF Len(s) = 0 THEN [ok |-> TRUE, s |-> <<>>]
  ELSE IF s[1] # "%"
       THEN LET rest == decodeURI(Tail(s))
            IN  [ok |-> rest.ok, s |-> <<s[1]>> \o rest.s]
       ELSE IF ~(Len(s) >= 3 /\ IsHex(s[2]) /\ IsHex(s[3]))
            THEN [ok |-> FALSE, s |-> <<>>]
            ELSE LET byte == 16 * HexValue(s[2]) + HexValue(s[3])
                     rest == decodeURI(SubSeq(s, 4, Len(s)))
                 IN  IF byte >= 128 THEN [ok |-> FALSE, s |-> <<>>]
                     ELSE [ok |-> rest.ok,
                           s  |-> (IF AsciiChar(byte) \in UriReserved
                                   THEN SubSeq(s, 1, 3)
                                   ELSE <<AsciiChar(byte)>>) \o rest.s]

\* ------------------------------------------------------ JsoncInstance
\* An annotations object is a heap cell named by its index; 0 is undefined.
\* Its content maps pointer -> (keyword key -> list of values).
NoAnnotations == 0

\* new JsoncInstance(textDocument, root, node, pointer, annotations)
JsoncInstance(root, node, pointer, annotations) ==
  [root |-> root, node |-> node, pointer |-> pointer, annotations |-> annotations]

\* The uri getter: the text document's URI.
documentUri(d) == <<"file:///doc", d>>

\* fromTextDocument: the whole document, at pointer "", over a new empty map
\* (cell 1 of the annotations heap).
fromTextDocument == JsoncInstance(DocRoot, DocRoot, <<>>, 1)

typeOf(ns, this) == IF this.node = NoNode THEN "undefined" ELSE ns[this.node].type

value(text, ns, this) ==
  IF this.node = NoNode THEN JUndefined
  ELSE IF ns[this.node].value = JUndefined
       THEN JSONparse(Slice(text, ns[this.node].offset,
                            ns[this.node].offset + ns[this.node].length))
       ELSE ns[this.node].value

\* A generator's run: the items it yields, in order, and whether it then ends by
\* raising a TypeError (reading .children[i] of a node without children).
Yielded(items, threw) == [items |-> items, threw |-> threw]

RECURSIVE EntriesFrom(_, _, _)
EntriesFrom(ns, this, i) ==
  LET children == ns[this.node].children IN
  IF i > Len(children) THEN Yielded(<<>>, FALSE)
  ELSE LET propertyNode == ns[children[i]] IN
    IF ~propertyNode.hasChildren THEN Yielded(<<>>, TRUE)
    ELSE LET rest == EntriesFrom(ns, this, i + 1) IN
      IF Len(propertyNode.children) < 2 THEN rest
      ELSE LET propertyName == ns[propertyNode.children[1]].value.v
               pointer == JsonPointerAppend(propertyName, this.pointer)
           IN  Yielded(<< <<JsoncInstance(this.root, propertyNode.children[1], pointer, this.annotations),
                            JsoncInstance(this.root, propertyNode.children[2], pointer, this.annotations)>> >>
                       \o rest.items, rest.threw)

entries(ns, this) ==
  IF typeOf(ns, this) # "object" THEN Yielded(<<>>, FALSE) ELSE EntriesFrom(ns, this, 1)

RECURSIVE IterFrom(_, _, _)
IterFrom(ns, this, itemIndex) ==
  LET children == ns[this.node].children IN
  IF ~(itemIndex < Len(children)) THEN <<>>
  ELSE LET itemNode == children[itemIndex + 1]
           pointer == JsonPointerAppend(NumToString(itemIndex), this.pointer)
       IN  <<JsoncInstance(this.root, itemNode, pointer, this.annotations)>>
           \o IterFrom(ns, this, itemIndex + 1)

iter(ns, this) ==
  IF typeOf(ns, this) # "array" THEN Yielded(<<>>, FALSE)
  ELSE Yielded(IterFrom(ns, this, 0), FALSE)

RECURSIVE KeysFrom(_, _, _)
KeysFrom(ns, this, i) ==
  LET children == ns[this.node].children IN
  IF i > Len(children) THEN Yielded(<<>>, FALSE)
  ELSE LET propertyNode == ns[children[i]] IN
    IF ~propertyNode.hasChildren THEN Yielded(<<>>, TRUE)
    ELSE LET propertyNameNode == propertyNode.children[1]
             pointer == JsonPointerAppend(ns[propertyNameNode].value.v, this.pointer)
             rest == KeysFrom(ns, this, i + 1)
         IN  Yielded(<<JsoncInstance(this.root, propertyNameNode, pointer, this.annotations)>>
                     \o rest.items, rest.threw)

keys(ns, this) ==
  IF typeOf(ns, this) # "object" THEN Yielded(<<>>, FALSE) ELSE KeysFrom(ns, this, 1)

RECURSIVE ValuesFrom(_, _, _)
ValuesFrom(ns, this, i) ==
  LET children == ns[this.node].children IN
  IF i > Len(children) THEN Yielded(<<>>, FALSE)
  ELSE LET propertyNode == ns[children[i]] IN
    IF ~propertyNode.hasChildren THEN Yielded(<<>>, TRUE)
    ELSE LET propertyName == ns[propertyNode.children[1]].value.v
             pointer == JsonPointerAppend(propertyName, this.pointer)
             valueNode == IF Len(propertyNode.children) >= 2
                          THEN propertyNode.children[2] ELSE NoNode
             rest == ValuesFrom(ns, this, i + 1)
         IN  Yielded(<<JsoncInstance(this.root, valueNode, pointer, this.annotations)>>
                     \o rest.items, rest.threw)

values(ns, this) ==
  IF typeOf(ns, this) # "object" THEN Yielded(<<>>, FALSE) ELSE ValuesFrom(ns, this, 1)

\* What a method call gives back: an Instance, a plain value, or an exception.
Returned(instance) == [t |-> "instance", instance |-> instance]
Result(r) == [t |-> "result", r |-> r]

\* find(([key]) => key.value() === propertyName, this.entries()): the first
\* matching pair, found before the generator can raise; 0 when there is none.
RECURSIVE FindEntry(_, _, _, _, _)
FindEntry(text, ns, items, i, propertyName) ==
  IF i > Len(items) THEN 0
  ELSE IF value(text, ns, items[i][1]) = JString(propertyName) THEN i
  ELSE FindEntry(text, ns, items, i + 1, propertyName)

\* The Instance step() builds on a miss: JsonPointer.append is handed the
\* annotations as a third argument, which it ignores, so the constructor's fifth
\* parameter stays undefined.
StepMiss(this, propertyName) ==
  JsoncInstance(this.root, NoNode, JsonPointerAppend(propertyName, this.pointer), NoAnnotations)

step(text, ns, this, propertyName) ==
  LET run == entries(ns, this)
      found == FindEntry(text, ns, run.items, 1, propertyName)
  IN  IF found # 0 THEN Returned(run.items[found][2])
      ELSE IF run.threw THEN Threw("TypeError")
      ELSE Returned(StepMiss(this, propertyName))

\* some((propertyName) => propertyName.value() === key, this.keys())
has(text, ns, this, key) ==
  LET run == keys(ns, this) IN
  IF \E i \in 1..Len(run.items) : value(text, ns, run.items[i]) = JString(key)
  THEN Result(TRUE)
  ELSE IF run.threw THEN Threw("TypeError") ELSE Result(FALSE)

length(ns, this) ==
  IF typeOf(ns, this) # "array" THEN Result(JUndefined)
  ELSE Result(JNumber(Len(ns[this.node].children)))

\* A get() that looks the pointer up from the document's root instead of this.root.
getFromDocumentRoot(ns, this, uri) ==
  IF Len(uri) = 0 \/ uri[1] # "#" THEN Threw("Error: No JSON document found")
  ELSE LET decoded == decodeURI(Tail(uri)) IN
    IF ~decoded.ok THEN Threw("URIError")
    ELSE LET pointer == decoded.s IN
      IF PointerThrows(pointer) THEN Threw("Error: Invalid JSON Pointer")
      ELSE Returned(JsoncInstance(this.root,
                                  findNodeAtLocation(ns, DocRoot, pointerSegments(pointer)),
                                  pointer, this.annotations))

\* A get() that takes uri.substring(1) as the pointer without decodeURI.
getUndecoded(ns, this, uri) ==
  IF Len(uri) = 0 \/ uri[1] # "#" THEN Threw("Error: No JSON document found")
  ELSE LET pointer == Tail(uri) IN
    IF PointerThrows(pointer) THEN Threw("Error: Invalid JSON Pointer")
    ELSE Returned(JsoncInstance(this.root,
                                findNodeAtLocation(ns, this.root, pointerSegments(pointer)),
                                pointer, this.annotations))

\* get(uri = ""): uri is a string; "#" followed by a JSON Pointer, URI-encoded.
get(ns, this, uri) ==
  IF Len(uri) = 0 \/ uri[1] # "#" THEN Threw("Error: No JSON document found")
  ELSE LET decoded == decodeURI(Tail(uri)) IN
    IF ~decoded.ok THEN Threw("URIError")
    ELSE LET pointer == decoded.s IN
      IF PointerThrows(pointer) THEN Threw("Error: Invalid JSON Pointer")
      ELSE Returned(JsoncInstance(this.root,
                                  findNodeAtLocation(ns, this.root, pointerSegments(pointer)),
                                  pointer, this.annotations))

\* parent.children[index] = node, as JavaScript assigns into an array: an index
\* inside the array replaces the element, the index equal to the length appends,
\* and -1 sets the key "-1".
SetChild(parentNode, index, node) ==
  IF index = -1 THEN [parentNode EXCEPT !.minusOne = node]
  ELSE IF index < Len(parentNode.children)
       THEN [parentNode EXCEPT !.children[index + 1] = node]
       ELSE [parentNode EXCEPT !.children = Append(parentNode.children, node)]

\* The slot asEmbedded() assigns to.
EmbeddedIndex(ns, this) ==
  LET parentNode == ns[ns[this.node].parent]
  IN  IF parentNode.type = "property" THEN 1
      ELSE IndexOfNode(parentNode.children, this.node, 1)

\* asEmbedded(): the new Instance, and the node and annotations heaps after the
\* call (a new placeholder node is written into the parent; the new Instance has
\* a new empty annotations object).
asEmbedded(ns, ms, this) ==
  IF this.node = NoNode \/ ns[this.node].parent = NoNode
  THEN [t |-> "throw", error |-> "TypeError", nodes |-> ns, maps |-> ms]
  ELSE LET placeholder == Len(ns) + 1
           parentId == ns[this.node].parent
           index == EmbeddedIndex(ns, this)
       IN  [t |-> "instance",
            instance |-> JsoncInstance(this.node, this.node, <<>>, Len(ms) + 1),
            nodes |-> [Append(ns, Placeholder(ns[this.node].offset))
                         EXCEPT ![parentId] = SetChild(ns[parentId], index, placeholder)],
            maps |-> Append(ms, EmptyMap)]

\* this.annotations[this.pointer]?.[key] || []
Recorded(ms, this, key) ==
  LET annotations == ms[this.annotations] IN
  IF this.pointer \in DOMAIN annotations /\ key \in DOMAIN annotations[this.pointer]
  THEN annotations[this.pointer][key]
  ELSE <<>>

annotation(ms, this, keyword, dialectId) ==
  IF this.annotations = NoAnnotations THEN Threw("TypeError")
  ELSE Result(Recorded(ms, this, getKeywordId(keyword, dialectId)))

\* The object annotate() builds: the old map's entries, with the entry of
\* this.pointer replaced by a copy that has value put first under keyword.
Annotated(ms, this, keyword, val) ==
  LET annotations == ms[this.annotations]
      atPointer == IF this.pointer \in DOMAIN annotations
                   THEN annotations[this.pointer] ELSE EmptyMap
  IN  (this.pointer :> ((keyword :> (<<val>> \o Recorded(ms, this, keyword))) @@ atPointer))
      @@ annotations

\* An annotate() that writes the new entry into the annotations object it was
\* given instead of building a new object.
annotateInPlace(ms, this, keyword, val) ==
  IF this.annotations = NoAnnotations
  THEN [t |-> "throw", error |-> "TypeError", maps |-> ms]
  ELSE [t |-> "instance",
        instance |-> this,
        maps |-> [ms EXCEPT ![this.annotations] = Annotated(ms, this, keyword, val)]]

\* annotate(keyword, value): the copy of this with the new annotations object,
\* and the annotations heap after the call.
annotate(ms, this, keyword, val) ==
  IF this.annotations = NoAnnotations
  THEN [t |-> "throw", error |-> "TypeError", maps |-> ms]
  ELSE [t |-> "instance",
        instance |-> [this EXCEPT !.annotations = Len(ms) + 1],
        maps |-> Append(ms, Annotated(ms, this, keyword, val))]

\* annotatedWith(keyword, dialectId): the Instances get() returns for the
\* pointers that carry the keyword identifier (as a set: the order is that of
\* the object's keys), or the first exception get() raises (pointers are visited
\* in key order; any raising pointer makes the call raise).
annotatedWith(ns, ms, this, keyword, dialectId) ==
  IF this.annotations = NoAnnotations THEN Result({})
  ELSE LET annotations == ms[this.annotations]
           keywordId == getKeywordId(keyword, dialectId)
           pointers == {q \in DOMAIN annotations : keywordId \in DOMAIN annotations[q]}
       IN  IF \E q \in pointers : IsThrow(get(ns, this, <<"#">> \o q))
           THEN Threw("Error")
           ELSE Result({get(ns, this, <<"#">> \o q).instance : q \in pointers})

parent(ns, this) ==
  IF this.node = NoNode THEN Threw("TypeError")
  ELSE Returned(JsoncInstance(this.root, ns[this.node].parent, this.pointer, this.annotations))

\* TextDocument.positionAt(offset) on a one-line document
positionAt(offset) == [line |-> 0, character |-> offset]

startPosition(ns, this) ==
  IF this.node = NoNode THEN Threw("TypeError")
  ELSE Result(positionAt(ns[this.node].offset))

endPosition(ns, this) ==
  IF this.node = NoNode THEN Threw("TypeError")
  ELSE Result(positionAt(ns[this.node].offset + ns[this.node].length))

textLength(ns, this) ==
  IF this.node = NoNode THEN Threw("TypeError") ELSE Result(ns[this.node].length)

\* pathToNode.reduce((pointer, segment) => JsonPointer.append(segment, pointer), "")
RECURSIVE PathToPointer(_, _)
PathToPointer(path, pointer) ==
  IF Len(path) = 0 THEN pointer
  ELSE PathToPointer(Tail(path), JsonPointerAppend(SegmentToString(Head(path)), pointer))

getInstanceAtPosition(text, ns, this, position) ==
  LET offset == offsetAt(text, position)
      node == findNodeAtOffset(ns, this.root, offset)
  IN  IF node # NoNode
      THEN Returned(JsoncInstance(this.root, node, PathToPointer(getNodePath(ns, node), <<>>),
                                  this.annotations))
      ELSE Returned(JsoncInstance(this.root, NoNode, <<>>, this.annotations))

\* ------------------------------------------------------ state machine
VARIABLES
  doc,     \* which document the text document holds (its text never changes)
  nodes,   \* the heap of syntax-tree nodes
  maps,    \* the heap of annotations objects
  recent,  \* the Instances the caller was given most recently, newest first
  last,    \* the call that has just returned: [op, this, args, result]; or NoCall
  calls    \* the number of calls made so far

vars == <<doc, nodes, maps, recent, last, calls>>

\* The Instances the caller holds: the document's own and the recent ones.
held == {fromTextDocument} \cup {recent[i] : i \in 1..Len(recent)}

text == Docs[doc].text

\* ------------------------------------------------------------- inputs
PropertyNames == {KeyA, KeyB, KeyX, KeyY, KeyTS}
Uris == { <<>>,
          <<"#">>,
          <<"#", "/", "a">>,
          <<"#", "/", "b">>,
          <<"#", "a">>,
          <<"#", "/", "%", "6", "1">>,
          <<"#", "/", "%">>,
          <<"#", "/", "x", "/", "1">>,
          <<"#", "/", "~", "0", "~", "1">> }
Positions == {[line |-> 0, character |-> c] : c \in {0, 1, 4, 6, 9}}
                \cup {[line |-> 1, character |-> 0]}
Keywords == {TitleKeyword, TitleKeywordId}
Dialects == {DefaultDialect}
AnnotationValues == {1, 2}

Call(op, this, args, result) == [op |-> op, this |-> this, args |-> args, result |-> result]

NoCall == [op |-> "none"]

\* The caller keeps an Instance it is given, and lets go of the oldest one when
\* it holds MaxHeld of them.
Hold(instance) ==
  IF instance \in held THEN recent
  ELSE SubSeq(<<instance>> \o recent, 1, Min(Len(recent) + 1, MaxHeld))

Init ==
  /\ doc \in 1..Len(Docs)
  /\ nodes = Docs[doc].nodes
  /\ maps = <<EmptyMap>>
  /\ recent = <<>>
  /\ last = NoCall
  /\ calls = 0

\* A call that returns an Instance or raises, and changes no heap.
Navigate(op, this, args, result) ==
  /\ last' = Call(op, this, args, result)
  /\ recent' = IF result.t = "instance" THEN Hold(result.instance) ELSE recent
  /\ UNCHANGED <<doc, nodes, maps>>

\* A call that returns a plain value or raises, and changes no heap.
Query(op, this, args, result) ==
  /\ last' = Call(op, this, args, result)
  /\ UNCHANGED <<doc, nodes, maps, recent>>

\* A generator run to its end; the caller may keep one of the yielded Instances.
Generate(op, this, run, yielded) ==
  /\ last' = Call(op, this, <<>>, [t |-> "yield", items |-> run.items, threw |-> run.threw])
  /\ \/ recent' = recent
     \/ \E instance \in yielded : recent' = Hold(instance)
  /\ UNCHANGED <<doc, nodes, maps>>

\* The caller makes a call on an Instance it holds, once the previous call has
\* returned.
MakeCall ==
  /\ last = NoCall
  /\ calls < MaxCalls
  /\ calls' = calls + 1

Uri ==
  /\ MakeCall
  /\ \E this \in held : Query("uri", this, <<>>, Result(documentUri(doc)))

Value ==
  /\ MakeCall
  /\ \E this \in held : Query("value", this, <<>>, value(text, nodes, this))

Has ==
  /\ MakeCall
  /\ \E this \in held, key \in PropertyNames :
       Query("has", this, <<key>>, has(text, nodes, this, key))

TypeOf ==
  /\ MakeCall
  /\ \E this \in held : Query("typeOf", this, <<>>, Result(typeOf(nodes, this)))

Step ==
  /\ MakeCall
  /\ \E this \in held, propertyName \in PropertyNames :
       Navigate("step", this, <<propertyName>>, step(text, nodes, this, propertyName))

Entries ==
  /\ MakeCall
  /\ \E this \in held :
       LET run == entries(nodes, this)
       IN  Generate("entries", this, run,
                    {run.items[i][j] : i \in 1..Len(run.items), j \in 1..2})

Iter ==
  /\ MakeCall
  /\ \E this \in held :
       LET run == iter(nodes, this)
       IN  Generate("iter", this, run, {run.items[i] : i \in 1..Len(run.items)})

Keys ==
  /\ MakeCall
  /\ \E this \in held :
       LET run == keys(nodes, this)
       IN  Generate("keys", this, run, {run.items[i] : i \in 1..Len(run.items)})

Values ==
  /\ MakeCall
  /\ \E this \in held :
       LET run == values(nodes, this)
       IN  Generate("values", this, run, {run.items[i] : i \in 1..Len(run.items)})

Length ==
  /\ MakeCall
  /\ \E this \in held : Query("length", this, <<>>, length(nodes, this))

Get ==
  /\ MakeCall
  /\ \E this \in held, uri \in Uris : Navigate("get", this, <<uri>>, get(nodes, this, uri))

AsEmbedded ==
  /\ MakeCall
  /\ \E this \in held :
       LET r == asEmbedded(nodes, maps, this) IN
       /\ last' = Call("asEmbedded", this, <<>>,
                       IF r.t = "instance" THEN Returned(r.instance) ELSE Threw(r.error))
       /\ nodes' = r.nodes
       /\ maps' = r.maps
       /\ recent' = IF r.t = "instance" THEN Hold(r.instance) ELSE recent
       /\ UNCHANGED doc

Annotation ==
  /\ MakeCall
  /\ \E this \in held, keyword \in Keywords, dialectId \in Dialects :
       Query("annotation", this, <<keyword, dialectId>>,
             annotation(maps, this, keyword, dialectId))

Annotate ==
  /\ MakeCall
  /\ \E this \in held, keyword \in Keywords, val \in AnnotationValues :
       LET r == annotate(maps, this, keyword, val) IN
       /\ last' = Call("annotate", this, <<keyword, val>>,
                       IF r.t = "instance" THEN Returned(r.instance) ELSE Threw(r.error))
       /\ maps' = r.maps
       /\ recent' = IF r.t = "instance" THEN Hold(r.instance) ELSE recent
       /\ UNCHANGED <<doc, nodes>>

AnnotatedWith ==
  /\ MakeCall
  /\ \E this \in held, keyword \in Keywords, dialectId \in Dialects :
       Query("annotatedWith", this, <<keyword, dialectId>>,
             annotatedWith(nodes, maps, this, keyword, dialectId))

Parent ==
  /\ MakeCall
  /\ \E this \in held : Navigate("parent", this, <<>>, parent(nodes, this))

StartPosition ==
  /\ MakeCall
  /\ \E this \in held : Query("startPosition", this, <<>>, startPosition(nodes, this))

EndPosition ==
  /\ MakeCall
  /\ \E this \in held : Query("endPosition", this, <<>>, endPosition(nodes, this))

TextLength ==
  /\ MakeCall
  /\ \E this \in held : Query("textLength", this, <<>>, textLength(nodes, this))

GetInstanceAtPosition ==
  /\ MakeCall
  /\ \E this \in held, position \in Positions :
       Navigate("getInstanceAtPosition", this, <<position>>,
                getInstanceAtPosition(text, nodes, this, position))

\* The caller has read the result and goes on.
Continue ==
  /\ last # NoCall
  /\ last' = NoCall
  /\ UNCHANGED <<doc, nodes, maps, recent, calls>>

Next ==
  \/ Uri
  \/ Value
  \/ Has
  \/ TypeOf
  \/ Step
  \/ Entries
  \/ Iter
  \/ Keys
  \/ Values
  \/ Length
  \/ Get
  \/ AsEmbedded
  \/ Annotation
  \/ Annotate
  \/ AnnotatedWith
  \/ Parent
  \/ StartPosition
  \/ EndPosition
  \/ TextLength
  \/ GetInstanceAtPosition
  \/ Continue

Spec == Init /\ [][Next]_vars

\* ------------------------------------------------------------- claims
\* The Instances a call returned: the one it returned, or all those its
\* generator yielded (both members of each pair that entries() yields).
ReturnedInstances(call) ==
  CASE call.result.t = "instance" -> {call.result.instance}
    [] call.result.t = "yield" /\ call.op = "entries" ->
         {call.result.items[i][j] : i \in 1..Len(call.result.items), j \in 1..2}
    [] call.result.t = "yield" /\ call.op # "entries" ->
         {call.result.items[i] : i \in 1..Len(call.result.items)}
    [] OTHER -> {}

NavigationOps ==
  {"step", "entries", "iter", "keys", "values", "get", "parent", "getInstanceAtPosition"}

\* C6: every Instance a navigation operation returns carries the annotations map
\* of the Instance it was derived from, so that annotation(kw) on it returns the
\* list recorded for its pointer (or the empty list) and never raises.
C6_NavigationKeepsAnnotations ==
  last.op \in NavigationOps =>
    \A i \in ReturnedInstances(last) :
      /\ i.annotations = last.this.annotations
      /\ \A keyword \in Keywords :
           LET r == annotation(maps, i, keyword, DefaultDialect)
           IN  /\ ~IsThrow(r)
               /\ r = Result(Recorded(maps, [i EXCEPT !.annotations = last.this.annotations],
                                      getKeywordId(keyword, DefaultDialect)))

\* C8: keys() yields exactly the first components of entries() and values()
\* exactly the second components, in the same order and number; all three are
\* empty for a non-object.
C8_KeysValuesProjectEntries ==
  /\ last.op = "keys" =>
       LET run == entries(nodes, last.this)
       IN  last.result.items = [i \in 1..Len(run.items) |-> run.items[i][1]]
  /\ last.op = "values" =>
       LET run == entries(nodes, last.this)
       IN  last.result.items = [i \in 1..Len(run.items) |-> run.items[i][2]]
  /\ (last.op \in {"keys", "values", "entries"} /\ typeOf(nodes, last.this) # "object")
       => last.result.items = <<>>

\* C4: for an object Instance o and a key k present in it,
\* o.step(k).value() equals (o.value())[k].
C4_StepValueIsValueAtKey ==
  (/\ last.op = "step"
   /\ typeOf(nodes, last.this) = "object"
   /\ has(text, nodes, last.this, last.args[1]) = Result(TRUE))
  => LET whole == value(text, nodes, last.this)
     IN  /\ last.result.t = "instance"
         /\ whole.t = "object"
         /\ last.args[1] \in DOMAIN whole.m
         /\ value(text, nodes, last.result.instance) = whole.m[last.args[1]]

\* The structural path from node `from` down to node `target`, as a one-element
\* set, or the empty set when target is not below from.  A property's name node
\* and value node are both at the property's name; an array's item is at its
\* index.
RECURSIVE PathsDown(_, _, _, _)
PathsDown(ns, from, target, path) ==
  IF from = target THEN {path}
  ELSE IF ~ns[from].hasChildren THEN {}
  ELSE LET children == ns[from].children IN
    CASE ns[from].type = "object" ->
           UNION {PathsDown(ns, children[i], target, path) : i \in 1..Len(children)}
      [] ns[from].type = "property" ->
           UNION {PathsDown(ns, children[i], target,
                            Append(path, NameSegment(ns[children[1]].value.v)))
                    : i \in 1..Len(children)}
      [] ns[from].type = "array" ->
           UNION {PathsDown(ns, children[i], target, Append(path, IndexSegment(i - 1)))
                    : i \in 1..Len(children)}
      [] OTHER -> {}

\* C2: after e = root.step(k).asEmbedded() on a parent object such as
\* {"a":{"b":1}}, e.pointer is "" and e.value() is the subtree's value, and the
\* already-held root, re-materialized (root.value(), root.step(k).value(),
\* root.get("#/k").value()), sees a placeholder at /k, never the original
\* subtree, and raises no error.
C2_EmbeddedSlotReadsAsPlaceholder ==
  \A k \in {KeyA, KeyX} :
    LET root == fromTextDocument
        original == value(text, Docs[doc].nodes, step(text, Docs[doc].nodes, root, k).instance)
        whole == value(text, nodes, root)
        stepped == step(text, nodes, root, k)
        got == get(nodes, root, <<"#">> \o JsonPointerAppend(k, <<>>))
    IN  (/\ last.op = "asEmbedded"
         /\ last.result.t = "instance"
         /\ Len(nodes) = Len(Docs[doc].nodes) + 1
         /\ step(text, Docs[doc].nodes, root, k) = Returned(last.this)
         /\ original.t \in {"object", "array"})
        => /\ last.result.instance.pointer = <<>>
           /\ value(text, nodes, last.result.instance) = original
           /\ ~IsThrow(whole)
           /\ whole.t = "object" /\ k \in DOMAIN whole.m /\ whole.m[k] # original
           /\ stepped.t = "instance"
           /\ ~IsThrow(value(text, nodes, stepped.instance))
           /\ value(text, nodes, stepped.instance) # original
           /\ got.t = "instance"
           /\ ~IsThrow(value(text, nodes, got.instance))
           /\ value(text, nodes, got.instance) # original

\* C5: every Instance obtained from an embedded Instance by step, entries, iter,
\* keys, values, get or getInstanceAtPosition has as its pointer the JSON Pointer
\* of its node's location relative to its root, the embedded root.
C5_PointerRelativeToEmbeddedRoot ==
  (/\ last.op \in {"step", "entries", "iter", "keys", "values", "get", "getInstanceAtPosition"}
   /\ last.this.root # DocRoot)
  => \A i \in ReturnedInstances(last) :
       i.node # NoNode =>
         /\ i.root = last.this.root
         /\ PathsDown(nodes, i.root, i.node, <<>>) # {}
         /\ \A path \in PathsDown(nodes, i.root, i.node, <<>>) :
              i.pointer = PathToPointer(path, <<>>)

\* C10: every operation other than asEmbedded leaves the syntax tree unchanged,
\* and each asEmbedded() on an Instance whose node has a structural parent
\* changes exactly one child slot of that parent, the slot that held the node
\* (on a repeated call: the slot holding the node's placeholder), to a
\* zero-length placeholder at the node's offset, leaving the parent's child count
\* and every other node unchanged.
C10_OnlyEmbeddingWritesOneSlot ==
  [][ last' # NoCall =>
        IF last'.op # "asEmbedded" THEN nodes' = nodes
        ELSE (last'.this.node # NoNode /\ nodes[last'.this.node].parent # NoNode) =>
          LET node == last'.this.node
              parentId == nodes[node].parent
              before == nodes[parentId].children
              after == nodes'[parentId].children
          IN  /\ Len(after) = Len(before)
              /\ \E j \in 1..Len(before) :
                   /\ \/ before[j] = node
                      \/ nodes[before[j]] = Placeholder(nodes[node].offset)
                   /\ after[j] # before[j]
                   /\ nodes'[after[j]] = Placeholder(nodes[node].offset)
                   /\ \A other \in 1..Len(before) : other # j => after[other] = before[other]
              /\ nodes'[parentId] = [nodes[parentId] EXCEPT !.children = after]
              /\ \A id \in 1..Len(nodes) : id # parentId => nodes'[id] = nodes[id]
    ]_vars

\* C1: for an Instance a with nothing recorded under kw at its pointer, after
\* b = a.annotate(kw, v1) and c = b.annotate(kw, v2), c.annotation(kw) is
\* [v2, v1], b.annotation(kw) is [v1] and a.annotation(kw) is still [].
\* (b is last.this, c the Instance the call returned, a an Instance still held.)
C1_AnnotateThenAnnotationReadsBack ==
  \A a \in held, v1 \in AnnotationValues :
    LET b == last.this
        c == last.result.instance
        kw == last.args[1]
        v2 == last.args[2]
    IN  (/\ last.op = "annotate"
         /\ last.result.t = "instance"
         /\ a.annotations # NoAnnotations
         /\ Recorded(maps, a, kw) = <<>>
         /\ Recorded(maps, a, getKeywordId(kw, DefaultDialect)) = <<>>
         /\ b.annotations # a.annotations
         /\ b = [a EXCEPT !.annotations = b.annotations]
         /\ maps[b.annotations] = Annotated(maps, a, kw, v1))
        => /\ annotation(maps, c, kw, DefaultDialect) = Result(<<v2, v1>>)
           /\ annotation(maps, b, kw, DefaultDialect) = Result(<<v1>>)
           /\ annotation(maps, a, kw, DefaultDialect) = Result(<<>>)

\* C7: x.annotate(keyword, value), for x at pointer p over the annotations map A,
\* returns an Instance whose map has at every pointer other than p exactly what
\* A records there, and leaves A, and every other existing map, unmodified.
C7_AnnotateLeavesOtherEntries ==
  [][ (last' # NoCall /\ last'.op = "annotate" /\ last'.result.t = "instance") =>
        LET x == last'.this
            A == maps[x.annotations]
            r == last'.result.instance
            newA == maps'[r.annotations]
        IN  /\ r.pointer = x.pointer
            /\ \A q \in (DOMAIN A \cup DOMAIN newA) \ {x.pointer} :
                 q \in DOMAIN A /\ q \in DOMAIN newA /\ newA[q] = A[q]
            /\ \A m \in 1..Len(maps) : maps'[m] = maps[m]
    ]_vars

\* annotate() has been called on an Instance whose map records something at
\* another pointer.
C7_Witness ==
  /\ last.op = "annotate"
  /\ last.result.t = "instance"
  /\ \E q \in DOMAIN maps[last.this.annotations] :
       /\ q # last.this.pointer
       /\ \E key \in DOMAIN maps[last.this.annotations][q] :
            maps[last.this.annotations][q][key] # <<>>
  /\ maps[last.result.instance.annotations][last.this.pointer][last.args[1]][1] = last.args[2]

====
